---- MODULE Spec2Model ----
(***************************************************************************)
(* Model of gutil/msgqueue.h (cvkit): the two bounded, thread-safe message  *)
(* queues MsgQueue (blocking push) and MsgQueueReplace (replacing push).    *)
(* One behaviour is the life of one queue object: Init is the state right   *)
(* after the constructor, and every thread of Threads repeatedly calls      *)
(* push or pop.  Every statement of push and pop that touches shared state  *)
(* is one atomic step, so that all interleavings of the statements of       *)
(* concurrent calls are behaviours of the model.                            *)
(*                                                                         *)
(* Semaphore and Lock come from gutil/semaphore.h, which msgqueue.h only    *)
(* includes; they are modelled as a counting semaphore (decrement blocks    *)
(* while the count is zero) and a scoped lock on such a semaphore.          *)
(***************************************************************************)
EXTENDS Integers, Sequences, FiniteSets, TLC

\* ---------------------------------------------------------------- bounds

\* number of threads that call push and pop
NThreads == 3

\* total number of push and pop calls made in one behaviour
MaxCalls == 4

\* largest capacity requested from the constructor
MaxCap == 2

Threads == 1..NThreads

\* the capacities requested from the constructors: some <= 0, some positive
ReqCaps == {-1, 0} \cup (1..MaxCap)

\* the two class templates of msgqueue.h
Variants == {"MsgQueue", "MsgQueueReplace"}

\* the value of a default-constructed T (T ret; in pop)
NoVal == 0

VARIABLES
  variant,  \* which class the queue object is an instance of
  req,      \* the constructor's argument _nmax
  nmax,     \* member nmax
  queue,    \* member queue (std::queue<T>), head first
  mutex,    \* member mutex (Semaphore), its count
  full,     \* member full (Semaphore), its count
  empty,    \* member empty (Semaphore), its count; MsgQueue only
  pc,       \* pc[t]: the statement thread t executes next
  msg,      \* msg[t]: the argument of t's running push
  ret,      \* ret[t]: the local ret of t's running pop
  lock,     \* lock[t]: a Lock object is alive in t's frame
  npush,    \* number of push calls made so far
  npop,     \* number of pop calls made so far
  hist,     \* history: the appends, replacements, removals and returns, in order
  woken     \* history: the threads that waited on a counter at zero when a
            \* permit of it was released, and have not proceeded since

vars == <<variant, req, nmax, queue, mutex, full, empty, pc, msg, ret, lock,
          npush, npop, hist, woken>>

qvars == <<variant, req, nmax>>

\* ------------------------------------------------------------ primitives

\* std::max
Max(a, b) == IF a >= b THEN a ELSE b

\* the smaller of two numbers (for the number of retained messages)
Min(a, b) == IF a <= b THEN a ELSE b

\* Semaphore::increment: releases one permit
Increment(s) == s + 1

\* Semaphore::decrement may proceed only while a permit is available
CanDecrement(s) == s > 0

\* Semaphore::decrement: takes one permit
Decrement(s) == s - 1

RECURSIVE IncrementTimes(_, _)
\* for (int i=0; i<n; i++) s.increment();
IncrementTimes(s, n) == IF n <= 0 THEN s ELSE IncrementTimes(Increment(s), n - 1)

\* ---------------------------------------------------------- constructors

\* a plausible slip: the requested capacity is taken as it is
MsgQueue_ctor_noclamp(_nmax) ==
  [nmax |-> _nmax, queue |-> << >>, mutex |-> Increment(0), full |-> 0,
   empty |-> IncrementTimes(0, _nmax)]

\* a plausible slip: the loop of the constructor runs once too often (i<=nmax)
MsgQueue_ctor_offbyone(_nmax) ==
  LET n == Max(1, _nmax)
  IN  [nmax |-> n, queue |-> << >>, mutex |-> Increment(0), full |-> 0,
       empty |-> IncrementTimes(0, n + 1)]

\* MsgQueue::MsgQueue(int _nmax)
MsgQueue_ctor(_nmax) ==
  LET n == Max(1, _nmax)
  IN  [nmax |-> n, queue |-> << >>, mutex |-> Increment(0), full |-> 0,
       empty |-> IncrementTimes(0, n)]

\* MsgQueueReplace::MsgQueueReplace(int _nmax); the class has no member empty,
\* which the model keeps at 0
MsgQueueReplace_ctor(_nmax) ==
  LET n == Max(1, _nmax)
  IN  [nmax |-> n, queue |-> << >>, mutex |-> Increment(0), full |-> 0,
       empty |-> 0]

Construct(v, _nmax) ==
  IF v = "MsgQueue" THEN MsgQueue_ctor(_nmax) ELSE MsgQueueReplace_ctor(_nmax)

Init ==
  /\ variant \in Variants
  /\ req \in ReqCaps
  /\ LET q == Construct(variant, req)
     IN  /\ nmax = q.nmax
         /\ queue = q.queue
         /\ mutex = q.mutex
         /\ full = q.full
         /\ empty = q.empty
  /\ pc = [t \in Threads |-> "idle"]
  /\ msg = [t \in Threads |-> NoVal]
  /\ ret = [t \in Threads |-> NoVal]
  /\ lock = [t \in Threads |-> FALSE]
  /\ npush = 0
  /\ npop = 0
  /\ hist = << >>
  /\ woken = {}

\* ------------------------------------------------------------- the calls

\* a thread calls push(msg) with a fresh, unique message
CallPush(t) ==
  /\ pc[t] = "idle"
  /\ npush + npop < MaxCalls
  /\ npush' = npush + 1
  /\ msg' = [msg EXCEPT ![t] = npush + 1]
  /\ pc' = [pc EXCEPT ![t] = IF variant = "MsgQueue" THEN "push_empty" ELSE "rpush_lock"]
  /\ UNCHANGED <<qvars, queue, mutex, full, empty, ret, lock, npop, hist, woken>>

\* a thread calls pop(); T ret; is default-constructed
CallPop(t) ==
  /\ pc[t] = "idle"
  /\ npush + npop < MaxCalls
  /\ npop' = npop + 1
  /\ ret' = [ret EXCEPT ![t] = NoVal]
  /\ pc' = [pc EXCEPT ![t] = IF variant = "MsgQueue" THEN "pop_full" ELSE "rpop_full"]
  /\ UNCHANGED <<qvars, queue, mutex, full, empty, msg, lock, npush, hist, woken>>

\* ------------------------------------------------------- MsgQueue::push

\* a plausible slip: push does not wait for a free slot
MsgQueue_push_empty_nowait(t) ==
  /\ pc[t] = "push_empty"
  /\ pc' = [pc EXCEPT ![t] = "push_lock"]
  /\ woken' = woken \ {t}
  /\ UNCHANGED <<qvars, queue, mutex, full, empty, msg, ret, lock, npush, npop, hist>>

\* empty.decrement();
MsgQueue_push_empty(t) ==
  /\ pc[t] = "push_empty"
  /\ CanDecrement(empty)
  /\ empty' = Decrement(empty)
  /\ pc' = [pc EXCEPT ![t] = "push_lock"]
  /\ woken' = woken \ {t}
  /\ UNCHANGED <<qvars, queue, mutex, full, msg, ret, lock, npush, npop, hist>>

\* Lock lock(mutex);
MsgQueue_push_lock(t) ==
  /\ pc[t] = "push_lock"
  /\ CanDecrement(mutex)
  /\ mutex' = Decrement(mutex)
  /\ lock' = [lock EXCEPT ![t] = TRUE]
  /\ pc' = [pc EXCEPT ![t] = "push_append"]
  /\ UNCHANGED <<qvars, queue, full, empty, msg, ret, npush, npop, hist, woken>>

\* a plausible slip: push releases the full permit inside the Lock scope
MsgQueue_push_append_signal(t) ==
  /\ pc[t] = "push_append"
  /\ queue' = Append(queue, msg[t])
  /\ hist' = Append(hist, <<"push", msg[t]>>)
  /\ full' = Increment(full)
  /\ pc' = [pc EXCEPT ![t] = "push_unlock"]
  /\ UNCHANGED <<qvars, mutex, empty, msg, ret, lock, npush, npop, woken>>

\* queue.push(msg);
MsgQueue_push_append(t) ==
  /\ pc[t] = "push_append"
  /\ queue' = Append(queue, msg[t])
  /\ hist' = Append(hist, <<"push", msg[t]>>)
  /\ pc' = [pc EXCEPT ![t] = "push_unlock"]
  /\ UNCHANGED <<qvars, mutex, full, empty, msg, ret, lock, npush, npop, woken>>

\* } the Lock goes out of scope
MsgQueue_push_unlock(t) ==
  /\ pc[t] = "push_unlock"
  /\ mutex' = Increment(mutex)
  /\ lock' = [lock EXCEPT ![t] = FALSE]
  /\ pc' = [pc EXCEPT ![t] = "push_full"]
  /\ UNCHANGED <<qvars, queue, full, empty, msg, ret, npush, npop, hist, woken>>

\* a plausible slip: push returns without releasing a full permit
MsgQueue_push_full_nosignal(t) ==
  /\ pc[t] = "push_full"
  /\ msg' = [msg EXCEPT ![t] = NoVal]
  /\ pc' = [pc EXCEPT ![t] = "idle"]
  /\ UNCHANGED <<qvars, queue, mutex, full, empty, ret, lock, npush, npop, hist, woken>>

\* full.increment(); and push returns
MsgQueue_push_full(t) ==
  /\ pc[t] = "push_full"
  /\ full' = Increment(full)
  /\ msg' = [msg EXCEPT ![t] = NoVal]
  /\ pc' = [pc EXCEPT ![t] = "idle"]
  /\ woken' = IF full = 0 THEN woken \cup {s \in Threads : pc[s] \in {"pop_full", "rpop_full"}} ELSE woken
  /\ UNCHANGED <<qvars, queue, mutex, empty, ret, lock, npush, npop, hist>>

\* -------------------------------------------------------- MsgQueue::pop

\* a plausible slip: pop does not wait for a message
MsgQueue_pop_full_nowait(t) ==
  /\ pc[t] = "pop_full"
  /\ pc' = [pc EXCEPT ![t] = "pop_lock"]
  /\ woken' = woken \ {t}
  /\ UNCHANGED <<qvars, queue, mutex, full, empty, msg, ret, lock, npush, npop, hist>>

\* full.decrement();
MsgQueue_pop_full(t) ==
  /\ pc[t] = "pop_full"
  /\ CanDecrement(full)
  /\ full' = Decrement(full)
  /\ pc' = [pc EXCEPT ![t] = "pop_lock"]
  /\ woken' = woken \ {t}
  /\ UNCHANGED <<qvars, queue, mutex, empty, msg, ret, lock, npush, npop, hist>>

\* Lock lock(mutex);
MsgQueue_pop_lock(t) ==
  /\ pc[t] = "pop_lock"
  /\ CanDecrement(mutex)
  /\ mutex' = Decrement(mutex)
  /\ lock' = [lock EXCEPT ![t] = TRUE]
  /\ pc' = [pc EXCEPT ![t] = "pop_remove"]
  /\ UNCHANGED <<qvars, queue, full, empty, msg, ret, npush, npop, hist, woken>>

\* a plausible slip: pop reads the head but does not remove it
MsgQueue_pop_remove_nopop(t) ==
  /\ pc[t] = "pop_remove"
  /\ Len(queue) > 0
  /\ ret' = [ret EXCEPT ![t] = Head(queue)]
  /\ hist' = Append(hist, <<"pop", Head(queue)>>)
  /\ pc' = [pc EXCEPT ![t] = "pop_unlock"]
  /\ UNCHANGED <<qvars, queue, mutex, full, empty, msg, lock, npush, npop, woken>>

\* a plausible slip: pop takes the newest element instead of the oldest
MsgQueue_pop_remove_back(t) ==
  /\ pc[t] = "pop_remove"
  /\ Len(queue) > 0
  /\ ret' = [ret EXCEPT ![t] = queue[Len(queue)]]
  /\ queue' = SubSeq(queue, 1, Len(queue) - 1)
  /\ hist' = Append(hist, <<"pop", queue[Len(queue)]>>)
  /\ pc' = [pc EXCEPT ![t] = "pop_unlock"]
  /\ UNCHANGED <<qvars, mutex, full, empty, msg, lock, npush, npop, woken>>

\* a plausible slip: pop takes its full permit inside the Lock scope
MsgQueue_pop_remove_wait(t) ==
  /\ pc[t] = "pop_remove"
  /\ CanDecrement(full)
  /\ full' = Decrement(full)
  /\ Len(queue) > 0
  /\ ret' = [ret EXCEPT ![t] = Head(queue)]
  /\ queue' = Tail(queue)
  /\ hist' = Append(hist, <<"pop", Head(queue)>>)
  /\ pc' = [pc EXCEPT ![t] = "pop_unlock"]
  /\ UNCHANGED <<qvars, mutex, empty, msg, lock, npush, npop, woken>>

\* ret=queue.front(); queue.pop();  On an empty std::queue both are undefined:
\* ret is then any value and the storage stays empty.
MsgQueue_pop_remove(t) ==
  /\ pc[t] = "pop_remove"
  /\ IF Len(queue) > 0
       THEN /\ ret' = [ret EXCEPT ![t] = Head(queue)]
            /\ queue' = Tail(queue)
            /\ hist' = Append(hist, <<"pop", Head(queue)>>)
       ELSE /\ \E v \in 0..MaxCalls :
                 /\ ret' = [ret EXCEPT ![t] = v]
                 /\ hist' = Append(hist, <<"pop", v>>)
            /\ queue' = << >>
  /\ pc' = [pc EXCEPT ![t] = "pop_unlock"]
  /\ UNCHANGED <<qvars, mutex, full, empty, msg, lock, npush, npop, woken>>

\* a plausible slip: pop leaves its critical section without releasing the
\* mutex
MsgQueue_pop_unlock_leak(t) ==
  /\ pc[t] = "pop_unlock"
  /\ lock' = [lock EXCEPT ![t] = FALSE]
  /\ pc' = [pc EXCEPT ![t] = "pop_empty"]
  /\ UNCHANGED <<qvars, queue, mutex, full, empty, msg, ret, npush, npop, hist, woken>>

\* } the Lock goes out of scope
MsgQueue_pop_unlock(t) ==
  /\ pc[t] = "pop_unlock"
  /\ mutex' = Increment(mutex)
  /\ lock' = [lock EXCEPT ![t] = FALSE]
  /\ pc' = [pc EXCEPT ![t] = "pop_empty"]
  /\ UNCHANGED <<qvars, queue, full, empty, msg, ret, npush, npop, hist, woken>>

\* a plausible slip: pop returns without releasing an empty permit
MsgQueue_pop_empty_nosignal(t) ==
  /\ pc[t] = "pop_empty"
  /\ hist' = Append(hist, <<"ret", ret[t]>>)
  /\ ret' = [ret EXCEPT ![t] = NoVal]
  /\ pc' = [pc EXCEPT ![t] = "idle"]
  /\ UNCHANGED <<qvars, queue, mutex, full, empty, msg, lock, npush, npop, woken>>

\* empty.increment(); return ret;
MsgQueue_pop_empty(t) ==
  /\ pc[t] = "pop_empty"
  /\ empty' = Increment(empty)
  /\ hist' = Append(hist, <<"ret", ret[t]>>)
  /\ ret' = [ret EXCEPT ![t] = NoVal]
  /\ pc' = [pc EXCEPT ![t] = "idle"]
  /\ woken' = IF empty = 0 THEN woken \cup {s \in Threads : pc[s] = "push_empty"} ELSE woken
  /\ UNCHANGED <<qvars, queue, mutex, full, msg, lock, npush, npop>>

\* ------------------------------------------------ MsgQueueReplace::push

\* a plausible slip: push enters its body without the Lock
MsgQueueReplace_push_lock_missing(t) ==
  /\ pc[t] = "rpush_lock"
  /\ pc' = [pc EXCEPT ![t] = "rpush_check"]
  /\ UNCHANGED <<qvars, queue, mutex, full, empty, msg, ret, lock, npush, npop, hist, woken>>

\* a plausible slip in the branch condition: > instead of >=
ReplaceCond_gt == Len(queue) > nmax

\* if (queue.size() >= nmax)
ReplaceCond == Len(queue) >= nmax

\* Lock lock(mutex);
MsgQueueReplace_push_lock(t) ==
  /\ pc[t] = "rpush_lock"
  /\ CanDecrement(mutex)
  /\ mutex' = Decrement(mutex)
  /\ lock' = [lock EXCEPT ![t] = TRUE]
  /\ pc' = [pc EXCEPT ![t] = "rpush_check"]
  /\ UNCHANGED <<qvars, queue, full, empty, msg, ret, npush, npop, hist, woken>>

\* a plausible slip: on a full storage push waits for a free slot, as
\* MsgQueue::push does
MsgQueueReplace_push_drop_wait(t) ==
  /\ pc[t] = "rpush_check"
  /\ ReplaceCond
  /\ CanDecrement(empty)
  /\ empty' = Decrement(empty)
  /\ pc' = [pc EXCEPT ![t] = "rpush_repl"]
  /\ UNCHANGED <<qvars, queue, mutex, full, msg, ret, lock, npush, npop, hist, woken>>

\* a plausible slip: the replacing branch removes the newest element
MsgQueueReplace_push_drop_newest(t) ==
  /\ pc[t] = "rpush_check"
  /\ ReplaceCond
  /\ Len(queue) > 0
  /\ hist' = Append(hist, <<"drop", queue[Len(queue)]>>)
  /\ queue' = SubSeq(queue, 1, Len(queue) - 1)
  /\ pc' = [pc EXCEPT ![t] = "rpush_repl"]
  /\ UNCHANGED <<qvars, mutex, full, empty, msg, ret, lock, npush, npop, woken>>

\* a plausible slip: the replacing branch takes a full permit, if there is
\* one, for the element it removes
MsgQueueReplace_push_drop_dec(t) ==
  /\ pc[t] = "rpush_check"
  /\ ReplaceCond
  /\ Len(queue) > 0
  /\ hist' = Append(hist, <<"drop", Head(queue)>>)
  /\ queue' = Tail(queue)
  /\ full' = IF CanDecrement(full) THEN Decrement(full) ELSE full
  /\ pc' = [pc EXCEPT ![t] = "rpush_repl"]
  /\ UNCHANGED <<qvars, mutex, empty, msg, ret, lock, npush, npop, woken>>

\* the replacing branch: { queue.pop();   On an empty std::queue pop() is
\* undefined; the storage then stays empty.
MsgQueueReplace_push_drop(t) ==
  /\ pc[t] = "rpush_check"
  /\ ReplaceCond
  /\ IF Len(queue) > 0
       THEN /\ hist' = Append(hist, <<"drop", Head(queue)>>)
            /\ queue' = Tail(queue)
       ELSE /\ hist' = Append(hist, <<"drop", NoVal>>)
            /\ queue' = << >>
  /\ pc' = [pc EXCEPT ![t] = "rpush_repl"]
  /\ UNCHANGED <<qvars, mutex, full, empty, msg, ret, lock, npush, npop, woken>>

\* a plausible slip: the replacing branch releases a full permit as well
MsgQueueReplace_push_replace_inc(t) ==
  /\ pc[t] = "rpush_repl"
  /\ queue' = Append(queue, msg[t])
  /\ hist' = Append(hist, <<"push", msg[t]>>)
  /\ full' = Increment(full)
  /\ pc' = [pc EXCEPT ![t] = "rpush_unlock"]
  /\ UNCHANGED <<qvars, mutex, empty, msg, ret, lock, npush, npop, woken>>

\* a plausible slip: the replacing branch puts msg at the head
MsgQueueReplace_push_replace_front(t) ==
  /\ pc[t] = "rpush_repl"
  /\ queue' = <<msg[t]>> \o queue
  /\ hist' = Append(hist, <<"push", msg[t]>>)
  /\ pc' = [pc EXCEPT ![t] = "rpush_unlock"]
  /\ UNCHANGED <<qvars, mutex, full, empty, msg, ret, lock, npush, npop, woken>>

\* queue.push(msg); } of the replacing branch
MsgQueueReplace_push_replace(t) ==
  /\ pc[t] = "rpush_repl"
  /\ queue' = Append(queue, msg[t])
  /\ hist' = Append(hist, <<"push", msg[t]>>)
  /\ pc' = [pc EXCEPT ![t] = "rpush_unlock"]
  /\ UNCHANGED <<qvars, mutex, full, empty, msg, ret, lock, npush, npop, woken>>

\* else { queue.push(msg);
MsgQueueReplace_push_append(t) ==
  /\ pc[t] = "rpush_check"
  /\ ~ReplaceCond
  /\ queue' = Append(queue, msg[t])
  /\ hist' = Append(hist, <<"push", msg[t]>>)
  /\ pc' = [pc EXCEPT ![t] = "rpush_full"]
  /\ UNCHANGED <<qvars, mutex, full, empty, msg, ret, lock, npush, npop, woken>>

\* a plausible slip: the appending branch does not release a full permit
MsgQueueReplace_push_full_nosignal(t) ==
  /\ pc[t] = "rpush_full"
  /\ pc' = [pc EXCEPT ![t] = "rpush_unlock"]
  /\ UNCHANGED <<qvars, queue, mutex, full, empty, msg, ret, lock, npush, npop, hist, woken>>

\* full.increment(); } of the appending branch
MsgQueueReplace_push_full(t) ==
  /\ pc[t] = "rpush_full"
  /\ full' = Increment(full)
  /\ pc' = [pc EXCEPT ![t] = "rpush_unlock"]
  /\ woken' = IF full = 0 THEN woken \cup {s \in Threads : pc[s] \in {"pop_full", "rpop_full"}} ELSE woken
  /\ UNCHANGED <<qvars, queue, mutex, empty, msg, ret, lock, npush, npop, hist>>

\* } the Lock goes out of scope and push returns
MsgQueueReplace_push_unlock(t) ==
  /\ pc[t] = "rpush_unlock"
  /\ mutex' = Increment(mutex)
  /\ lock' = [lock EXCEPT ![t] = FALSE]
  /\ msg' = [msg EXCEPT ![t] = NoVal]
  /\ pc' = [pc EXCEPT ![t] = "idle"]
  /\ UNCHANGED <<qvars, queue, full, empty, ret, npush, npop, hist, woken>>

\* ------------------------------------------------- MsgQueueReplace::pop

\* full.decrement();
MsgQueueReplace_pop_full(t) ==
  /\ pc[t] = "rpop_full"
  /\ CanDecrement(full)
  /\ full' = Decrement(full)
  /\ pc' = [pc EXCEPT ![t] = "rpop_lock"]
  /\ woken' = woken \ {t}
  /\ UNCHANGED <<qvars, queue, mutex, empty, msg, ret, lock, npush, npop, hist>>

\* Lock lock(mutex);
MsgQueueReplace_pop_lock(t) ==
  /\ pc[t] = "rpop_lock"
  /\ CanDecrement(mutex)
  /\ mutex' = Decrement(mutex)
  /\ lock' = [lock EXCEPT ![t] = TRUE]
  /\ pc' = [pc EXCEPT ![t] = "rpop_remove"]
  /\ UNCHANGED <<qvars, queue, full, empty, msg, ret, npush, npop, hist, woken>>

\* a plausible slip: pop reads the head but does not remove it
MsgQueueReplace_pop_remove_nopop(t) ==
  /\ pc[t] = "rpop_remove"
  /\ Len(queue) > 0
  /\ ret' = [ret EXCEPT ![t] = Head(queue)]
  /\ hist' = Append(hist, <<"pop", Head(queue)>>)
  /\ pc' = [pc EXCEPT ![t] = "rpop_unlock"]
  /\ UNCHANGED <<qvars, queue, mutex, full, empty, msg, lock, npush, npop, woken>>

\* ret=queue.front(); queue.pop();  On an empty std::queue both are undefined:
\* ret is then any value and the storage stays empty.
MsgQueueReplace_pop_remove(t) ==
  /\ pc[t] = "rpop_remove"
  /\ IF Len(queue) > 0
       THEN /\ ret' = [ret EXCEPT ![t] = Head(queue)]
            /\ queue' = Tail(queue)
            /\ hist' = Append(hist, <<"pop", Head(queue)>>)
       ELSE /\ \E v \in 0..MaxCalls :
                 /\ ret' = [ret EXCEPT ![t] = v]
                 /\ hist' = Append(hist, <<"pop", v>>)
            /\ queue' = << >>
  /\ pc' = [pc EXCEPT ![t] = "rpop_unlock"]
  /\ UNCHANGED <<qvars, mutex, full, empty, msg, lock, npush, npop, woken>>

\* } the Lock goes out of scope; return ret;
MsgQueueReplace_pop_unlock(t) ==
  /\ pc[t] = "rpop_unlock"
  /\ mutex' = Increment(mutex)
  /\ lock' = [lock EXCEPT ![t] = FALSE]
  /\ hist' = Append(hist, <<"ret", ret[t]>>)
  /\ ret' = [ret EXCEPT ![t] = NoVal]
  /\ pc' = [pc EXCEPT ![t] = "idle"]
  /\ UNCHANGED <<qvars, queue, full, empty, msg, npush, npop, woken>>

\* ------------------------------------------------------- specification

\* a step of a call that thread t is running
Run(t) ==
  \/ MsgQueue_push_empty(t)
  \/ MsgQueue_push_lock(t)
  \/ MsgQueue_push_append(t)
  \/ MsgQueue_push_unlock(t)
  \/ MsgQueue_push_full(t)
  \/ MsgQueue_pop_full(t)
  \/ MsgQueue_pop_lock(t)
  \/ MsgQueue_pop_remove(t)
  \/ MsgQueue_pop_unlock(t)
  \/ MsgQueue_pop_empty(t)
  \/ MsgQueueReplace_push_lock(t)
  \/ MsgQueueReplace_push_drop(t)
  \/ MsgQueueReplace_push_replace(t)
  \/ MsgQueueReplace_push_append(t)
  \/ MsgQueueReplace_push_full(t)
  \/ MsgQueueReplace_push_unlock(t)
  \/ MsgQueueReplace_pop_full(t)
  \/ MsgQueueReplace_pop_lock(t)
  \/ MsgQueueReplace_pop_remove(t)
  \/ MsgQueueReplace_pop_unlock(t)

Next == \E t \in Threads : CallPush(t) \/ CallPop(t) \/ Run(t)

Spec == Init /\ [][Next]_vars

\* the threads are scheduled fairly: a thread whose next statement can execute
\* executes it eventually; nothing obliges a thread to call push or pop
FairSpec == Spec /\ \A t \in Threads : WF_vars(Run(t))

\* ------------------------------------------------- reading the history

\* the values of the events of kind k in history h, in order
ValsOf(h, k) ==
  LET F[i \in 0..Len(h)] ==
        IF i = 0 THEN << >>
        ELSE IF h[i][1] = k THEN Append(F[i - 1], h[i][2]) ELSE F[i - 1]
  IN  F[Len(h)]

\* the values appended to the storage, removed from it by pop, returned by
\* pop, and removed from it by a replacing push, each in the order it happened
Pushed == ValsOf(hist, "push")
Popped == ValsOf(hist, "pop")
Returned == ValsOf(hist, "ret")
Dropped == ValsOf(hist, "drop")

Range(s) == {s[i] : i \in 1..Len(s)}

NoDup(s) == \A i, j \in 1..Len(s) : s[i] = s[j] => i = j

IsPrefix(s, r) == Len(s) <= Len(r) /\ \A i \in 1..Len(s) : s[i] = r[i]

\* the last n elements of s
LastN(s, n) == SubSeq(s, Len(s) - n + 1, Len(s))

\* at no moment of history h two pops were between removal and return
NoOverlap(h) ==
  \A i \in 1..Len(h) :
    Len(ValsOf(SubSeq(h, 1, i), "pop")) - Len(ValsOf(SubSeq(h, 1, i), "ret")) <= 1

PushPcs == {"push_empty", "push_lock", "push_append", "push_unlock", "push_full"}
PopPcs == {"pop_full", "pop_lock", "pop_remove", "pop_unlock", "pop_empty"}
RPushPcs == {"rpush_lock", "rpush_check", "rpush_repl", "rpush_full", "rpush_unlock"}
RPopPcs == {"rpop_full", "rpop_lock", "rpop_remove", "rpop_unlock"}

AllIdle == \A t \in Threads : pc[t] = "idle"

\* ------------------------------------------------------------ the claims

\* C1: MsgQueue delivers in FIFO order: the values removed by pop, in the
\* order of the removals, are a prefix of the values appended by push, in the
\* order of the appends; and when pops do not overlap (a single consumer) the
\* values are returned in the order of their removal, so that N pops after N
\* pushes return exactly the pushed sequence.
C1_FifoOrder ==
  variant = "MsgQueue" =>
    /\ IsPrefix(Popped, Pushed)
    /\ NoOverlap(hist) =>
         /\ IsPrefix(Returned, Pushed)
         /\ Len(Returned) = Len(Pushed) => Returned = Pushed

\* two pushes and two pops by one consumer have completed, in order
C1_Witness ==
  /\ variant = "MsgQueue"
  /\ NoOverlap(hist)
  /\ Pushed = <<1, 2>>
  /\ Returned = <<1, 2>>
  /\ AllIdle

\* C3: in every state of either queue, also inside a push or a pop, the
\* storage holds between 0 and nmax elements.
C3_BoundedOccupancy == Len(queue) >= 0 /\ Len(queue) <= nmax

\* the storage is full while one push waits or runs and a pop runs
C3_Witness ==
  /\ Len(queue) = nmax
  /\ nmax = MaxCap
  /\ \E t, s \in Threads :
       /\ pc[t] \in PushPcs \cup RPushPcs
       /\ pc[s] \in PopPcs \cup RPopPcs

\* C2: no loss and no duplication in MsgQueue: no value is returned twice and
\* only pushed values are returned; and under fair scheduling, when as many
\* pops as pushes have been called in total, every call returns and the
\* returned values are exactly the pushed values, each once.
C2_NoLossNoDup ==
  /\ [](variant = "MsgQueue" =>
          NoDup(Returned) /\ Range(Returned) \subseteq Range(Pushed))
  /\ <>[](variant = "MsgQueue" /\ npush = npop =>
            /\ AllIdle
            /\ Len(Returned) = npush
            /\ Range(Returned) = 1..npush)

\* two producers and the consumers are done on a queue of capacity 1; the
\* second producer's value went in first
C2_Witness ==
  /\ variant = "MsgQueue"
  /\ nmax = 1
  /\ npush = 2
  /\ npop = 2
  /\ AllIdle
  /\ Pushed = <<2, 1>>
  /\ Range(Returned) = {1, 2}

\* a push of MsgQueue that waits for a free slot while the storage is full
PushBlocked(t) ==
  variant = "MsgQueue" /\ pc[t] = "push_empty" /\ Len(queue) = nmax

\* C4: backpressure of MsgQueue: while the storage holds nmax elements there
\* is no empty permit, so a push that waits for one can neither append nor
\* return; it stops being blocked only by a pop removing an element, it goes
\* on only with a permit and room in the storage, and empty permits are
\* released by pop alone.  Without a pop it stays blocked.
C4_Backpressure ==
  /\ [](variant = "MsgQueue" /\ Len(queue) = nmax => empty = 0)
  /\ [][\A t \in Threads :
          PushBlocked(t) /\ ~PushBlocked(t)' =>
            \E s \in Threads : pc[s] = "pop_remove" /\ pc'[s] = "pop_unlock"]_vars
  /\ [][\A t \in Threads :
          pc[t] = "push_empty" /\ pc'[t] # "push_empty" =>
            empty > 0 /\ Len(queue) < nmax /\ pc'[t] = "push_lock"]_vars
  /\ [][variant = "MsgQueue" /\ empty' > empty =>
          \E s \in Threads : pc[s] = "pop_empty" /\ pc'[s] = "idle"]_vars

\* nmax = MaxCap pushes have completed, no pop was called, and a further push
\* waits
C4_Witness ==
  /\ nmax = MaxCap
  /\ npop = 0
  /\ full = nmax
  /\ \E t \in Threads : PushBlocked(t)

\* no push event follows a pop event in history h
PushesThenPops(h) ==
  \A i, j \in 1..Len(h) : i < j => ~(h[i][1] = "pop" /\ h[j][1] = "push")

\* C5: replace semantics of MsgQueueReplace: as long as every append came
\* before every removal by pop (and no push is in the middle of a
\* replacement), the values removed by pop so far followed by the stored
\* values are exactly the last min(N, nmax) of the N appended values, in push
\* order; sequential pops return them in that order; and once min(N, nmax)
\* values are removed no full permit is left, so a further pop blocks.
C5_ReplaceSemantics ==
  (/\ variant = "MsgQueueReplace"
   /\ PushesThenPops(hist)
   /\ \A t \in Threads : pc[t] # "rpush_repl")
  => LET k == Min(Len(Pushed), nmax)
     IN  /\ Popped \o queue = LastN(Pushed, k)
         /\ NoOverlap(hist) => IsPrefix(Returned, Popped)
         /\ Len(Popped) = k => queue = << >> /\ ~CanDecrement(full)

\* capacity 1: 1 and 2 were pushed, a pop returned 2, a further pop waits
C5_Witness ==
  /\ variant = "MsgQueueReplace"
  /\ nmax = 1
  /\ Pushed = <<1, 2>>
  /\ Dropped = <<1>>
  /\ Returned = <<2>>
  /\ \E t \in Threads : pc[t] = "rpop_full"

\* the pops that hold a full permit and have not removed their element yet
PopsOwed ==
  {t \in Threads : pc[t] \in {"pop_lock", "pop_remove", "rpop_lock", "rpop_remove"}}

\* C7: pop never reads empty storage, in both queues: whenever a pop is at
\* its removal step the storage holds an element; the storage holds an
\* element for every full permit and for every pop that took one and has not
\* removed yet (outside the middle of a replacement), so a pop gets past
\* full.decrement() only when an element is there for it; and every removed
\* value is a pushed one.
C7_PopNeverReadsEmpty ==
  /\ \A t \in Threads : pc[t] \in {"pop_remove", "rpop_remove"} => Len(queue) >= 1
  /\ (\A t \in Threads : pc[t] # "rpush_repl") =>
       Len(queue) >= full + Cardinality(PopsOwed)
  /\ Range(Popped) \subseteq Range(Pushed)

\* a pop of MsgQueueReplace is at its removal step after a replacement, while
\* another pop waits for a permit
C7_Witness ==
  /\ variant = "MsgQueueReplace"
  /\ Len(Dropped) >= 1
  /\ Len(queue) = 1
  /\ \E t, s \in Threads : pc[t] = "rpop_remove" /\ pc[s] = "rpop_full"

\* C9: capacity clamp: a requested capacity n <= 0 gives nmax = 1, any other
\* gives nmax = n; right after construction the storage is empty, full = 0,
\* mutex = 1 and, for MsgQueue, empty = nmax; so with n <= 0 at most one
\* value is appended to a MsgQueue before a pop removes one.
C9_CapacityClamp ==
  /\ nmax = (IF req <= 0 THEN 1 ELSE req)
  /\ (npush = 0 /\ npop = 0) =>
       /\ queue = << >>
       /\ full = 0
       /\ mutex = 1
       /\ variant = "MsgQueue" => empty = nmax
  /\ (variant = "MsgQueue" /\ req <= 0 /\ Popped = << >>) => Len(Pushed) <= 1

\* MsgQueue constructed with a capacity <= 0: one push has completed, a second
\* one waits for a pop
C9_Witness ==
  /\ variant = "MsgQueue"
  /\ req <= 0
  /\ Pushed = <<1>>
  /\ full = 1
  /\ npop = 0
  /\ \E t \in Threads : pc[t] = "push_empty" /\ ~CanDecrement(empty)

\* the statements that read or change the storage
StoragePcs == {"push_append", "pop_remove", "rpush_check", "rpush_repl", "rpop_remove"}

\* the threads inside a mutex-protected section
Holders == {t \in Threads : lock[t]}

\* C10: mutual exclusion on the storage, in both queues: at most one thread is
\* inside a mutex-protected section, the mutex counter is 0 or 1 (0 exactly
\* while a thread is inside), a thread about to read or change the storage
\* holds the mutex, and every change of the storage is a step of the holder.
C10_MutualExclusion ==
  /\ [](/\ mutex \in {0, 1}
        /\ Cardinality(Holders) <= 1
        /\ mutex = 1 - Cardinality(Holders)
        /\ \A t \in Threads : pc[t] \in StoragePcs => lock[t])
  /\ [][queue' # queue =>
          \E t \in Threads : lock[t] /\ pc[t] \in StoragePcs /\ pc'[t] # pc[t]]_vars

\* one thread is inside its critical section while two others wait for the
\* mutex
C10_Witness ==
  \E t, s, u \in Threads :
    /\ t # s /\ s # u /\ t # u
    /\ lock[t]
    /\ pc[t] \in StoragePcs
    /\ pc[s] \in {"push_lock", "pop_lock", "rpush_lock", "rpop_lock"}
    /\ pc[u] \in {"push_lock", "pop_lock", "rpush_lock", "rpop_lock"}

\* C6: push of MsgQueueReplace never waits for a pop: a running push can
\* always take its next step, unless it waits for the mutex while the thread
\* inside the critical section can take its own next step; hence under fair
\* scheduling every push that starts returns, whatever the consumers do.
C6_PushNeverBlocks ==
  /\ [](variant = "MsgQueueReplace" =>
          \A t \in Threads : pc[t] \in RPushPcs =>
            \/ ENABLED Run(t)
            \/ /\ pc[t] = "rpush_lock"
               /\ \E s \in Threads : lock[s] /\ ENABLED Run(s))
  /\ \A t \in Threads :
       (variant = "MsgQueueReplace" /\ pc[t] \in RPushPcs) ~> (pc[t] = "idle")

\* MaxCalls pushes on a MsgQueueReplace of capacity 1 have all returned and
\* no pop was ever called
C6_Witness ==
  /\ variant = "MsgQueueReplace"
  /\ nmax = 1
  /\ npop = 0
  /\ Len(Pushed) = MaxCalls
  /\ AllIdle

\* C8 as stated: a thread that waited on a counter at zero when a matching
\* operation released a permit of it eventually returns, also when several
\* threads wait on the same counter.
C8_EveryWokenReturns ==
  \A t \in Threads : (t \in woken) ~> (pc[t] = "idle")

\* C8, amended: under fair scheduling the blocked threads proceed as far as
\* the released permits go: in the end every pop has returned if at least as
\* many values were appended and not replaced as pops were called, and every
\* push of MsgQueue has returned if no more pushes were called than values
\* were removed plus nmax.
C8_BlockedProceed ==
  /\ <>[](Len(Pushed) - Len(Dropped) >= npop =>
            \A t \in Threads : pc[t] \notin PopPcs \cup RPopPcs)
  /\ <>[]((variant = "MsgQueue" /\ npush <= Len(Popped) + nmax) =>
            \A t \in Threads : pc[t] \notin PushPcs)

\* two pops waited on full at zero when a push released a permit, and a
\* second push is about to release another
C8_Witness ==
  \E t, s, u \in Threads :
    /\ t # s
    /\ {t, s} \subseteq woken
    /\ pc[t] \in {"pop_full", "rpop_full"}
    /\ pc[s] \in {"pop_full", "rpop_full"}
    /\ pc[u] \in {"push_full", "rpush_full"}

\* C11 as stated: every decrement and every increment of full and of empty,
\* in both queues, is a step of a thread that does not hold the mutex.
C11_PermitsOutsideLock ==
  [][\A t \in Threads :
       (pc'[t] # pc[t] /\ (full' # full \/ empty' # empty)) => ~lock[t]]_vars

\* C11, amended: every decrement of full and of empty, in both queues, and
\* every increment of them in MsgQueue is a step of a thread that does not
\* hold the mutex; MsgQueueReplace::push increments full while it holds the
\* mutex, and nothing else increments full there.
C11_AcquireOutsideLock ==
  /\ [][\A t \in Threads :
          (/\ pc'[t] # pc[t]
           /\ \/ full' < full
              \/ empty' < empty
              \/ variant = "MsgQueue" /\ (full' # full \/ empty' # empty))
          => ~lock[t]]_vars
  /\ [][(variant = "MsgQueueReplace" /\ full' > full) =>
          \E t \in Threads : lock[t] /\ pc[t] = "rpush_full" /\ pc'[t] # pc[t]]_vars

\* a push of MsgQueueReplace has released a full permit and still holds the
\* mutex, while a pop waits for the mutex with a permit taken
C11_Witness ==
  /\ variant = "MsgQueueReplace"
  /\ \E t, s \in Threads :
       /\ lock[t]
       /\ pc[t] = "rpush_unlock"
       /\ Pushed = <<1, 2>>
       /\ Dropped = << >>
       /\ pc[s] = "rpop_lock"

\* C12 as stated: in every state of MsgQueueReplace the storage size equals
\* the value of full.
C12_SizeEqualsFull ==
  variant = "MsgQueueReplace" => Len(queue) = full

\* C12, amended: the storage size of MsgQueueReplace equals the value of full
\* in every state in which no pop is between full.decrement() and its removal
\* and no push is between changing the storage and the end of its branch.
C12_SizeEqualsFullAtRest ==
  (/\ variant = "MsgQueueReplace"
   /\ \A t \in Threads :
        pc[t] \notin {"rpop_lock", "rpop_remove", "rpush_repl", "rpush_full"})
  => Len(queue) = full

\* all calls have returned after a replacement on a full MsgQueueReplace of
\* capacity MaxCap
C12_Witness ==
  /\ variant = "MsgQueueReplace"
  /\ nmax = MaxCap
  /\ AllIdle
  /\ Len(Dropped) >= 1
  /\ Len(queue) = nmax
  /\ full = nmax

\* no thread is between the first and the last step of a push or pop of
\* MsgQueue
Quiescent ==
  \A t \in Threads : pc[t] \in {"idle", "push_empty", "pop_full"}

\* C13: in every state of MsgQueue in which no thread is between the first
\* and the last step of a push or pop, full + empty = nmax and the storage
\* size equals full.
C13_QuiescentInvariant ==
  (variant = "MsgQueue" /\ Quiescent) =>
    /\ full + empty = nmax
    /\ Len(queue) = full

\* MsgQueue is at rest after a pop and with the storage full again, while a
\* push waits for a free slot
C13_Witness ==
  /\ variant = "MsgQueue"
  /\ Quiescent
  /\ Len(Returned) >= 1
  /\ full = nmax
  /\ empty = 0
  /\ \E t \in Threads : pc[t] = "push_empty"

\* thread t takes a step
Steps(t) == pc'[t] # pc[t]

\* C14: effect of a push of MsgQueueReplace, statement by statement under the
\* Lock: on a storage of size >= nmax it removes exactly the head and then
\* appends msg at the tail, without changing full, and the size is nmax
\* again; on a smaller storage it appends msg at the tail, removes nothing,
\* and then increments full by one; the stored elements keep their order,
\* and no other thread changes the storage while the push is inside.
C14_ReplacePushEffect ==
  /\ [][\A t \in Threads : (pc[t] = "rpush_check" /\ Steps(t)) =>
          IF Len(queue) >= nmax
            THEN queue' = Tail(queue) /\ full' = full /\ pc'[t] = "rpush_repl"
            ELSE queue' = Append(queue, msg[t]) /\ full' = full
                 /\ pc'[t] = "rpush_full"]_vars
  /\ [][\A t \in Threads : (pc[t] = "rpush_repl" /\ Steps(t)) =>
          /\ queue' = Append(queue, msg[t])
          /\ Len(queue') = nmax
          /\ full' = full
          /\ pc'[t] = "rpush_unlock"]_vars
  /\ [][\A t \in Threads : (pc[t] = "rpush_full" /\ Steps(t)) =>
          queue' = queue /\ full' = full + 1 /\ pc'[t] = "rpush_unlock"]_vars
  /\ [][\A t \in Threads : (pc[t] = "rpush_unlock" /\ Steps(t)) =>
          queue' = queue /\ full' = full /\ pc'[t] = "idle"]_vars
  /\ [][\A t \in Threads :
          (pc[t] \in RPushPcs \ {"rpush_lock"} /\ ~Steps(t)) => queue' = queue]_vars

\* a push has replaced the head of a full storage of capacity 2: 1 is gone,
\* 2 and 3 are stored in order, full is still 2
C14_Witness ==
  /\ variant = "MsgQueueReplace"
  /\ nmax = 2
  /\ queue = <<2, 3>>
  /\ Dropped = <<1>>
  /\ full = 2
  /\ \E t \in Threads : pc[t] = "rpush_unlock"

\* the number of own steps after which a thread inside a critical section has
\* left it at the latest
StepsToRelease(p) ==
  CASE p \in {"rpush_check"} -> 3
    [] p \in {"push_append", "pop_remove", "rpush_repl", "rpush_full", "rpop_remove"} -> 2
    [] p \in {"push_unlock", "pop_unlock", "rpush_unlock", "rpop_unlock"} -> 1
    [] OTHER -> 0

\* C15: no waiting while holding the lock, in both queues: a thread that
\* holds the mutex is never at a decrement of full or empty and can always
\* take its next step, and each of its steps brings the release of the mutex
\* closer, which comes after at most three of its own steps.
C15_NoWaitInsideLock ==
  /\ [](\A t \in Threads : lock[t] =>
          /\ pc[t] \notin {"push_empty", "pop_full", "rpop_full"}
          /\ StepsToRelease(pc[t]) >= 1
          /\ ENABLED Run(t))
  /\ [][\A t \in Threads : (lock[t] /\ Steps(t)) =>
          /\ StepsToRelease(pc'[t]) < StepsToRelease(pc[t])
          /\ lock'[t] <=> StepsToRelease(pc'[t]) >= 1]_vars

\* a thread holds the mutex while one thread waits on full and another on
\* empty
C15_Witness ==
  \E t, s, u \in Threads :
    /\ lock[t]
    /\ pc[s] = "pop_full" /\ ~CanDecrement(full)
    /\ pc[u] = "push_empty" /\ ~CanDecrement(empty)

\* the values taken out of the storage, by pop or by a replacing push, in the
\* order they were taken out
Removed ==
  LET F[i \in 0..Len(hist)] ==
        IF i = 0 THEN << >>
        ELSE IF hist[i][1] \in {"pop", "drop"}
               THEN Append(F[i - 1], hist[i][2]) ELSE F[i - 1]
  IN  F[Len(hist)]

\* s is r with some elements left out
RECURSIVE IsSubseq(_, _)
IsSubseq(s, r) ==
  IF s = << >> THEN TRUE
  ELSE IF r = << >> THEN FALSE
  ELSE IF Head(s) = Head(r) THEN IsSubseq(Tail(s), Tail(r))
  ELSE IsSubseq(s, Tail(r))

\* C16: MsgQueueReplace preserves order and loses messages only by
\* replacement: the values removed by pop, in removal order, are a
\* subsequence of the appended values without repetition, and so are the
\* returned values when pops do not overlap; every appended value was removed
\* by a pop, removed by a replacing push, or is still stored, in push order;
\* and a value is removed by a push only as the head of a storage of size
\* >= nmax.
C16_ReplaceOrderAndLoss ==
  /\ [](variant = "MsgQueueReplace" =>
          /\ IsSubseq(Popped, Pushed)
          /\ NoDup(Popped)
          /\ NoOverlap(hist) => IsPrefix(Returned, Popped)
          /\ Range(Popped) \cap Range(Dropped) = {}
          /\ Removed \o queue = Pushed)
  /\ [][Len(Dropped') > Len(Dropped) =>
          /\ Len(queue) >= nmax
          /\ Dropped' = Append(Dropped, Head(queue))
          /\ queue' = Tail(queue)
          /\ \E t \in Threads : lock[t] /\ pc[t] = "rpush_check" /\ Steps(t)]_vars

\* capacity 2: 1, 2, 3 were pushed, 1 was replaced, a pop returned 2 and 3 is
\* still stored
C16_Witness ==
  /\ variant = "MsgQueueReplace"
  /\ nmax = 2
  /\ Pushed = <<1, 2, 3>>
  /\ Dropped = <<1>>
  /\ Returned = <<2>>
  /\ queue = <<3>>

\* C17: balanced workloads terminate on MsgQueue: under fair scheduling, when
\* as many pushes as pops have been called in total, every thread finishes
\* and the final state has an empty storage, full = 0, empty = nmax and
\* mutex = 1.
C17_BalancedTerminates ==
  <>[]((variant = "MsgQueue" /\ npush = npop) =>
         /\ AllIdle
         /\ queue = << >>
         /\ full = 0
         /\ empty = nmax
         /\ mutex = 1)

\* two pushes and two pops on a MsgQueue of capacity 1 have all finished
C17_Witness ==
  /\ variant = "MsgQueue"
  /\ nmax = 1
  /\ npush = 2
  /\ npop = 2
  /\ AllIdle
  /\ Pushed = <<1, 2>>
  /\ queue = << >>
  /\ full = 0
  /\ empty = 1
  /\ mutex = 1

\* the number of threads whose next statement is one of ps
NumAt(ps) == Cardinality({t \in Threads : pc[t] \in ps})

\* C18: permit conservation of MsgQueue in every state: full + empty + the
\* pushes that hold an empty permit and have not released a full one + the
\* pops that hold a full permit and have not released an empty one = nmax;
\* the storage size = full + the pushes that have appended and not yet
\* incremented full + the pops that have decremented full and not yet
\* removed; hence full and empty stay within 0..nmax.
C18_PermitConservation ==
  variant = "MsgQueue" =>
    /\ full + empty
         + NumAt({"push_lock", "push_append", "push_unlock", "push_full"})
         + NumAt({"pop_lock", "pop_remove", "pop_unlock", "pop_empty"}) = nmax
    /\ Len(queue) = full + NumAt({"push_unlock", "push_full"})
                         + NumAt({"pop_lock", "pop_remove"})
    /\ 0 <= full /\ full <= nmax
    /\ 0 <= empty /\ empty <= nmax

\* on a MsgQueue of capacity 2 one push has appended and not yet incremented
\* full while a pop holds a permit and has not removed yet
C18_Witness ==
  /\ variant = "MsgQueue"
  /\ nmax = 2
  /\ \E t, s \in Threads : pc[t] = "push_full" /\ pc[s] = "pop_lock"

\* C19: permit accounting of MsgQueueReplace in every state in which no push
\* holds the mutex: the storage size = full + the pops that have decremented
\* full and not yet removed the head; so full never exceeds the storage size
\* and stays within 0..nmax, also after a replacing push ran while a pop
\* held a permit.
C19_ReplacePermitAccounting ==
  (/\ variant = "MsgQueueReplace"
   /\ \A t \in Threads : ~(lock[t] /\ pc[t] \in RPushPcs))
  => /\ Len(queue) = full + NumAt({"rpop_lock", "rpop_remove"})
     /\ full <= Len(queue)
     /\ 0 <= full /\ full <= nmax

\* capacity 1: 2 has replaced 1, nobody holds the mutex, and a pop holds the
\* only permit without having removed yet
C19_Witness ==
  /\ variant = "MsgQueueReplace"
  /\ nmax = 1
  /\ mutex = 1
  /\ queue = <<2>>
  /\ Dropped = <<1>>
  /\ full = 0
  /\ \E t \in Threads : pc[t] = "rpop_lock"

\* the push of an abstract bounded FIFO queue of capacity nmax
AbsPush(v) == Len(queue) < nmax /\ queue' = Append(queue, v)

\* the pop of an abstract bounded FIFO queue; it hands out the head
AbsPop(t) == Len(queue) > 0 /\ queue' = Tail(queue) /\ ret'[t] = Head(queue)

\* C20: MsgQueue refines an atomic bounded FIFO queue of capacity nmax whose
\* state is the storage: it starts empty; the append under the mutex is a
\* push of the abstract queue (enabled, as length < nmax), the removal under
\* the mutex is a pop of it (enabled, as length > 0, and yielding the head);
\* every other step leaves the abstract queue as it is.
C20_RefinesBoundedFifo ==
  /\ (variant = "MsgQueue" /\ hist = << >>) => queue = << >>
  /\ [][variant = "MsgQueue" =>
          \A t \in Threads :
            /\ (pc[t] = "push_append" /\ Steps(t)) => AbsPush(msg[t])
            /\ (pc[t] = "pop_remove" /\ Steps(t)) => AbsPop(t)
            /\ (pc[t] \notin {"push_append", "pop_remove"} /\ Steps(t)) =>
                 queue' = queue]_vars

\* capacity 1: 1 went through the queue, 2 is stored, and a third push waits
\* for room
C20_Witness ==
  /\ variant = "MsgQueue"
  /\ nmax = 1
  /\ Popped = <<1>>
  /\ queue = <<2>>
  /\ \E t \in Threads : pc[t] = "push_empty"

====
